---- MODULE Spec2Model ----
(***************************************************************************)
(* Verification model of the ppomppu relay monitor:                        *)
(*   scraper.py   - incremental scrape snapshots in per-day log files      *)
(*   analyzer.py  - aggregation of recent snapshots, model fallback chain, *)
(*                  per-day analysis files                                 *)
(*   notifier.py  - split_text segmentation of a model's analysis, the    *)
(*                  delivery loop and the exit status of the run           *)
(* Time is counted in hours since midnight of day 0 (KST).  Texts are      *)
(* sequences of one-character strings.  An optional value (None in the     *)
(* source) is a sequence of length 0, a present value a sequence of        *)
(* length 1.                                                               *)
(***************************************************************************)
EXTENDS Integers, Sequences, FiniteSets, TLC

VARIABLES
    now,            \* datetime.now(KST) of the current run, in hours
    logs,           \* data/logs/<date>.json : date -> sequence of snapshots
    analysis_files, \* data/analysis/<date>.json : date -> sequence of entries
    scrapes,        \* number of scraper runs so far
    raw_posts,      \* scraper.main: raw_posts of the last run
    latest_entry,   \* scraper.main: latest_entry of the last run (optional)
    posts,          \* scraper.main: posts (the new ones) of the last run
    loaded,         \* result of the last load_recent_data call (optional)
    pc,             \* position of the analyzer run / split_text / the notifier run
    unique_posts,   \* analyzer.main: posts, the aggregated corpus
    api_key,        \* os.environ.get("OPENROUTER_API_KEY") of the run (optional)
    available,      \* analyze_with_fallback: available, the discovered free models
    models_to_try,  \* analyze_with_fallback: candidate list
    calls,          \* models passed to analyze_with_ai so far, in order
    responses,      \* what the model capability answered to each call
    discoveries,    \* number of GET /models calls of the run
    returned,       \* (model, result) returned by analyze_with_fallback
    saved,          \* number of save_analysis calls of the run
    saved_at,       \* save_analysis: now, the clock read when saving (optional)
    text,           \* split_text: argument text
    max_len,        \* split_text: argument max_len
    remaining,      \* split_text: local remaining
    parts,          \* split_text: local parts
    store_calls,    \* number of direct save_log / save_analysis calls so far
    telegram_env,   \* TELEGRAM_BOT_TOKEN and TELEGRAM_CHAT_ID are both set
    latest_analysis,\* notifier.main: entry, what get_latest_analysis returned (optional)
    results,        \* notifier.main: results, after the legacy shape is normalized
    result_index,   \* notifier.main: i, the result being sent (from 1)
    part_index,     \* notifier.main: p_index, the part to send next (from 1)
    body_parts,     \* notifier.main: parts, the split analysis of the result being sent
    all_sent,       \* notifier.main: all_sent of the result being sent
    success_count,  \* notifier.main: success_count
    sent,           \* messages passed to send_telegram so far, with their outcome
    exit_code       \* exit status of the notifier process (optional)

vars == <<now, logs, analysis_files, scrapes, raw_posts, latest_entry, posts,
          loaded, pc, unique_posts, api_key, available, models_to_try, calls, responses,
          discoveries, returned, saved, saved_at, text, max_len, remaining, parts,
          store_calls, telegram_env, latest_analysis, results, result_index,
          part_index, body_parts, all_sent, success_count, sent, exit_code>>

scraperVars == <<scrapes, raw_posts, latest_entry, posts>>
analyzerVars == <<unique_posts, api_key, available, models_to_try, calls, responses,
                  discoveries, returned, saved, saved_at>>
splitVars == <<text, max_len, remaining, parts>>
notifierVars == <<telegram_env, latest_analysis, results, result_index, part_index,
                  body_parts, all_sent, success_count, sent, exit_code>>

----------------------------------------------------------------------------
(* Bounds of the model *)

\* longest list fetch_posts returns
MaxRaw == 2
\* scraper runs in one behaviour
MaxScrapes == 2
\* direct calls of save_log / save_analysis in one behaviour
MaxCalls == 3

(* Program constants *)

\* timedelta(days=1), one file per calendar day
HoursPerDay == 24
\* load_recent_data(hours=24)
WindowHours == 24
\* for i in range(2)
LookbackDays == 2

----------------------------------------------------------------------------
(* Timestamps and file names *)

\* now.strftime('%Y-%m-%d'): the calendar day that names the file
DateStr(t) == t \div HoursPerDay

\* now.isoformat(): the stored text of a timestamp, day and hour of day
IsoFormat(t) == [date |-> t \div HoursPerDay, hour |-> t % HoursPerDay]

\* whether datetime.fromisoformat accepts the stored text
Parses(s) == s.date >= 0 /\ s.hour \in 0..(HoursPerDay - 1)

\* datetime.fromisoformat on a text it accepts
FromIsoFormat(s) == s.date * HoursPerDay + s.hour

\* a stored collected_at that datetime.fromisoformat rejects (hour 99)
Malformed == [date |-> 0, hour |-> 99]

\* log_file.exists() and json.load: the entries of a day's file, [] if absent
FileEntries(files, d) == IF d \in DOMAIN files THEN files[d] ELSE <<>>

\* for i in range(2): the entries of today's file, then of yesterday's
RECURSIVE RecentEntries(_, _, _)
RecentEntries(files, t, i) ==
    IF i >= LookbackDays THEN <<>>
    ELSE FileEntries(files, DateStr(t - i * HoursPerDay))
            \o RecentEntries(files, t, i + 1)

\* (mutant) the day's file is written without loading what it holds
AppendToFile_Overwrite(files, d, entry) ==
    [x \in (DOMAIN files) \cup {d} |-> IF x = d THEN <<entry>> ELSE files[x]]

\* read-modify-write of a day's file: load or [], append, dump
AppendToFile(files, d, entry) ==
    [x \in (DOMAIN files) \cup {d} |->
        IF x = d THEN Append(FileEntries(files, d), entry) ELSE files[x]]

----------------------------------------------------------------------------
(* scraper.py *)

\* a raw post as fetch_posts builds it; id is "" when the link has no "no="
RawPost(id, title) == [id |-> id, title |-> title]

RawPosts == {RawPost("", "A"), RawPost("1", "A"), RawPost("2", "B")}

\* the lists fetch_posts can return, up to MaxRaw posts
RECURSIVE SeqsUpTo(_, _)
SeqsUpTo(S, n) ==
    IF n = 0 THEN {<<>>}
    ELSE LET shorter == SeqsUpTo(S, n - 1)
         IN  shorter \cup {Append(s, x) : s \in {q \in shorter : Len(q) = n - 1}, x \in S}

Pages == SeqsUpTo(RawPosts, MaxRaw)

\* (mutant) the loop without the comparison of times: the last entry read wins
RECURSIVE LatestOf_LastRead(_, _)
LatestOf_LastRead(entries, latest) ==
    IF entries = <<>> THEN latest
    ELSE IF ~Parses(Head(entries).collected_at)
         THEN LatestOf_LastRead(Tail(entries), latest)
         ELSE LatestOf_LastRead(Tail(entries), <<Head(entries)>>)

\* load_latest_log_entry: the loop over the entries of the two files
RECURSIVE LatestOf(_, _)
LatestOf(entries, latest) ==
    IF entries = <<>> THEN latest
    ELSE LET entry == Head(entries)
         IN  IF ~Parses(entry.collected_at)
             THEN LatestOf(Tail(entries), latest)
             ELSE IF latest = <<>>
                     \/ FromIsoFormat(entry.collected_at)
                          > FromIsoFormat(latest[1].collected_at)
                  THEN LatestOf(Tail(entries), <<entry>>)
                  ELSE LatestOf(Tail(entries), latest)

load_latest_log_entry(files, t) == LatestOf(RecentEntries(files, t, 0), <<>>)

\* seen_ids = {post.get("id") for post in latest_entry["posts"] if post.get("id")}
SeenIds(entry) ==
    {entry.posts[i].id : i \in {j \in 1..Len(entry.posts) : entry.posts[j].id # ""}}

\* (mutant) the filter without its "not post.get('id')" tests: ids compared as they are
NewPosts_EmptyIdCompared(raw, latest) ==
    IF latest # <<>>
    THEN LET seen_ids == {latest[1].posts[i].id : i \in 1..Len(latest[1].posts)}
             IsNew(post) == post.id \notin seen_ids
         IN  SelectSeq(raw, IsNew)
    ELSE raw

\* posts = [post for post in raw_posts if not id or id not in seen_ids]
NewPosts(raw, latest) ==
    IF latest # <<>>
    THEN LET seen_ids == SeenIds(latest[1])
             IsNew(post) == post.id = "" \/ post.id \notin seen_ids
         IN  SelectSeq(raw, IsNew)
    ELSE raw

\* save_log: the entry appended to the day's file
LogEntry(t, new, raw_post_count) ==
    [collected_at |-> IsoFormat(t), post_count |-> Len(new),
     posts |-> new, raw_post_count |-> raw_post_count]

save_log(files, t, new, raw_post_count) ==
    AppendToFile(files, DateStr(t), LogEntry(t, new, raw_post_count))

\* scraper.main: one run of the scraper, `delay` hours after the previous run
Scrape(page, delay) ==
    /\ scrapes < MaxScrapes
    /\ loaded = <<>>
    /\ now' = now + delay
    /\ raw_posts' = page
    /\ latest_entry' = load_latest_log_entry(logs, now')
    /\ posts' = NewPosts(raw_posts', latest_entry')
    /\ logs' = save_log(logs, now', posts', Len(raw_posts'))
    /\ scrapes' = scrapes + 1
    /\ UNCHANGED <<analysis_files, loaded, pc>>
    /\ UNCHANGED analyzerVars
    /\ UNCHANGED splitVars
    /\ UNCHANGED <<store_calls, notifierVars>>

----------------------------------------------------------------------------
(* analyzer.py: load_recent_data *)

\* post["collected_at"] = entry["collected_at"]; all_posts.append(post)
RECURSIVE Tagged(_, _)
Tagged(entry_posts, collected_at) ==
    IF entry_posts = <<>> THEN <<>>
    ELSE <<[id |-> Head(entry_posts).id, title |-> Head(entry_posts).title,
            collected_at |-> collected_at]>>
         \o Tagged(Tail(entry_posts), collected_at)

\* (mutant) the window test with > instead of >=
RECURSIVE AllPosts_StrictCutoff(_, _)
AllPosts_StrictCutoff(entries, cutoff) ==
    IF entries = <<>> THEN <<>>
    ELSE LET entry == Head(entries)
         IN  (IF FromIsoFormat(entry.collected_at) > cutoff
              THEN Tagged(entry.posts, entry.collected_at) ELSE <<>>)
             \o AllPosts_StrictCutoff(Tail(entries), cutoff)

\* for entry in data: if collected_at >= cutoff: all_posts gets the entry's posts
RECURSIVE AllPosts(_, _)
AllPosts(entries, cutoff) ==
    IF entries = <<>> THEN <<>>
    ELSE LET entry == Head(entries)
         IN  (IF FromIsoFormat(entry.collected_at) >= cutoff
              THEN Tagged(entry.posts, entry.collected_at) ELSE <<>>)
             \o AllPosts(Tail(entries), cutoff)

\* the loop "if post['id'] not in seen_ids: seen_ids.add(...); unique_posts.append(post)"
RECURSIVE UniquePosts(_, _)
UniquePosts(all_posts, seen_ids) ==
    IF all_posts = <<>> THEN <<>>
    ELSE LET post == Head(all_posts)
         IN  IF post.id \notin seen_ids
             THEN <<post>> \o UniquePosts(Tail(all_posts), seen_ids \cup {post.id})
             ELSE UniquePosts(Tail(all_posts), seen_ids)

\* load_recent_data(hours): datetime.fromisoformat is not guarded here, so an
\* entry it rejects raises out of the function
load_recent_data(files, t, hours) ==
    LET entries == RecentEntries(files, t, 0)
        cutoff == t - hours
    IN  IF \E i \in 1..Len(entries) : ~Parses(entries[i].collected_at)
        THEN [raised |-> TRUE, posts |-> <<>>]
        ELSE [raised |-> FALSE, posts |-> UniquePosts(AllPosts(entries, cutoff), {})]

\* the aggregation step of an analyzer run, `delay` hours after the last scrape
LoadRecent(delay) ==
    /\ loaded = <<>>
    /\ now' = now + delay
    /\ loaded' = <<load_recent_data(logs, now', WindowHours)>>
    /\ UNCHANGED <<logs, analysis_files, pc>>
    /\ UNCHANGED scraperVars
    /\ UNCHANGED analyzerVars
    /\ UNCHANGED splitVars
    /\ UNCHANGED <<store_calls, notifierVars>>

----------------------------------------------------------------------------
(* The log store: scraper runs followed by one aggregation *)

\* hours between two scheduled runs
Delays == {1, 24}

\* the hour of the first state: 23:00 of day 0
StartTimes == {23}

\* what the log area holds before the first modelled run: nothing, or a file
\* with one entry whose collected_at does not parse
SeedEntries ==
    { [collected_at |-> Malformed, post_count |-> 1,
       posts |-> <<RawPost("2", "B")>>, raw_post_count |-> 1] }

\* a snapshot an earlier scraper run stored at 22:00 of day 0
SeedSnapshot == LogEntry(22, <<RawPost("1", "A")>>, 1)

SeedLogs == {<<>>} \cup {[d \in {0} |-> <<SeedSnapshot, e>>] : e \in SeedEntries}

NoText == <<>>

\* no notifier run and no direct store call yet
InitNotifierIdle ==
    /\ store_calls = 0
    /\ telegram_env = TRUE
    /\ latest_analysis = <<>>
    /\ results = <<>>
    /\ result_index = 0
    /\ part_index = 0
    /\ body_parts = <<>>
    /\ all_sent = TRUE
    /\ success_count = 0
    /\ sent = <<>>
    /\ exit_code = <<>>

InitIdle ==
    /\ InitNotifierIdle
    /\ analysis_files = <<>>
    /\ pc = "idle"
    /\ unique_posts = <<>>
    /\ api_key = <<>>
    /\ available = <<>>
    /\ models_to_try = <<>>
    /\ calls = <<>>
    /\ responses = <<>>
    /\ discoveries = 0
    /\ returned = <<>>
    /\ saved = 0
    /\ saved_at = <<>>
    /\ text = NoText
    /\ max_len = 1
    /\ remaining = NoText
    /\ parts = <<>>

InitLog ==
    /\ now \in StartTimes
    /\ logs \in SeedLogs
    /\ scrapes = 0
    /\ raw_posts = <<>>
    /\ latest_entry = <<>>
    /\ posts = <<>>
    /\ loaded = <<>>
    /\ InitIdle

NextLog ==
    \/ \E page \in Pages, delay \in Delays : Scrape(page, delay)
    \/ \E delay \in Delays : LoadRecent(delay)

SpecLog == InitLog /\ [][NextLog]_vars

----------------------------------------------------------------------------
(* Claims about the log store, checked under SpecLog *)

\* every snapshot stored in any day's file
StoredEntries == UNION {{logs[d][i] : i \in 1..Len(logs[d])} : d \in DOMAIN logs}

\* the positions of the raw posts the claim calls new
NewIndexes ==
    {i \in 1..Len(raw_posts) :
        \/ raw_posts[i].id = ""
        \/ latest_entry = <<>>
        \/ ~\E j \in 1..Len(latest_entry[1].posts) :
                /\ latest_entry[1].posts[j].id # ""
                /\ latest_entry[1].posts[j].id = raw_posts[i].id}

\* C1: after a scraper run the posts stored as new are exactly the raw posts
\* whose id is empty or is not a non-empty id of the latest snapshot, in the
\* order of the raw list (all of them when there is no latest snapshot), and
\* they are what the run appended to the day's file.
C1_NewPostsAreTheUnseenRawPosts ==
    (scrapes > 0 /\ loaded = <<>>) =>
        /\ Len(posts) = Cardinality(NewIndexes)
        /\ \A i \in NewIndexes :
              posts[Cardinality({j \in NewIndexes : j <= i})] = raw_posts[i]
        /\ LET file == logs[DateStr(now)]
           IN  file[Len(file)].posts = posts

\* C1 witness: a run whose latest snapshot holds an empty id and a non-empty id,
\* both scraped again: the empty-id post is stored, the other one is not
C1_Witness ==
    /\ scrapes > 0 /\ loaded = <<>>
    /\ latest_entry # <<>>
    /\ \E j \in 1..Len(latest_entry[1].posts) : latest_entry[1].posts[j].id = ""
    /\ Len(raw_posts) = 2 /\ raw_posts[1].id # "" /\ raw_posts[2].id = ""
    /\ posts = <<raw_posts[2]>>

\* the snapshots inside the window of the last load
InWindowEntries ==
    {e \in StoredEntries :
        Parses(e.collected_at)
        /\ FromIsoFormat(e.collected_at) >= now - WindowHours}

\* the number of posts of the corpus with a given id
CountId(corpus, id) == Cardinality({k \in 1..Len(corpus) : corpus[k].id = id})

\* C2: the corpus load_recent_data returns holds every non-empty id of a
\* snapshot with collected_at >= now - hours exactly once, and every post of
\* the corpus is a post of such a snapshot (none comes from an older one).
C2_CorpusHoldsWindowIdsOnce ==
    (loaded # <<>> /\ ~loaded[1].raised) =>
        LET corpus == loaded[1].posts
        IN  /\ \A e \in InWindowEntries : \A j \in 1..Len(e.posts) :
                  e.posts[j].id # "" => CountId(corpus, e.posts[j].id) = 1
            /\ \A k \in 1..Len(corpus) : \E e \in InWindowEntries :
                  /\ e.collected_at = corpus[k].collected_at
                  /\ \E j \in 1..Len(e.posts) :
                        /\ e.posts[j].id = corpus[k].id
                        /\ e.posts[j].title = corpus[k].title

\* C2 witness: a load with a snapshot exactly at the cutoff, an id stored twice
\* inside the window, and an older snapshot whose id is not in the corpus
C2_Witness ==
    /\ loaded # <<>> /\ ~loaded[1].raised
    /\ \E e \in InWindowEntries :
          /\ FromIsoFormat(e.collected_at) = now - WindowHours
          /\ Len(e.posts) = 2 /\ e.posts[1].id = "1" /\ e.posts[2].id = "1"
    /\ \E e \in StoredEntries :
          /\ Parses(e.collected_at)
          /\ FromIsoFormat(e.collected_at) < now - WindowHours
          /\ Len(e.posts) > 0 /\ e.posts[1].id = "2"
    /\ CountId(loaded[1].posts, "1") = 1
    /\ CountId(loaded[1].posts, "2") = 0

\* the number of empty-id posts stored in the snapshots of the window
RECURSIVE SumEmptyIds(_)
SumEmptyIds(entries) ==
    IF entries = {} THEN 0
    ELSE LET e == CHOOSE x \in entries : TRUE
         IN  Cardinality({j \in 1..Len(e.posts) : e.posts[j].id = ""})
             + SumEmptyIds(entries \ {e})

\* C3: every empty-id post of every in-window snapshot is retained in the
\* corpus load_recent_data returns.
C3_EmptyIdPostsAllRetained ==
    (loaded # <<>> /\ ~loaded[1].raised) =>
        CountId(loaded[1].posts, "") = SumEmptyIds(InWindowEntries)

\* the log area as the last scraper run found it: the entry it appended removed
PriorLogs ==
    [d \in DOMAIN logs |->
        IF d = DateStr(now) THEN SubSeq(logs[d], 1, Len(logs[d]) - 1) ELSE logs[d]]

\* the snapshots of today's and yesterday's file, as the last run found them,
\* whose collected_at parses
LookbackCandidates ==
    {e \in UNION {{PriorLogs[d][i] : i \in 1..Len(PriorLogs[d])} :
                    d \in (DOMAIN PriorLogs) \cap {DateStr(now), DateStr(now) - 1}} :
        Parses(e.collected_at)}

\* C14: load_latest_log_entry returns a snapshot with the greatest parseable
\* collected_at of today's and yesterday's file, none when there is no such
\* snapshot, and entries whose collected_at does not parse are skipped.
C14_LatestIsMaxOfTwoDays ==
    (scrapes > 0 /\ loaded = <<>>) =>
        /\ (latest_entry = <<>>) <=> (LookbackCandidates = {})
        /\ latest_entry # <<>> =>
              /\ latest_entry[1] \in LookbackCandidates
              /\ \A e \in LookbackCandidates :
                    FromIsoFormat(e.collected_at)
                        <= FromIsoFormat(latest_entry[1].collected_at)

\* C14 witness: the run found a snapshot in today's file, an older one and an
\* unparseable entry in yesterday's file, and took today's
C14_Witness ==
    /\ scrapes > 0 /\ loaded = <<>>
    /\ Cardinality(LookbackCandidates) = 2
    /\ \E i \in 1..Len(FileEntries(PriorLogs, DateStr(now) - 1)) :
          ~Parses(PriorLogs[DateStr(now) - 1][i].collected_at)
    /\ latest_entry # <<>>
    /\ DateStr(FromIsoFormat(latest_entry[1].collected_at)) = DateStr(now)

\* C16: the corpus is in ascending order of the snapshots' collected_at, and a
\* non-empty id stored in several in-window snapshots is kept from the earliest.
C16_CorpusAscendingByCollectedAt ==
    (loaded # <<>> /\ ~loaded[1].raised) =>
        LET corpus == loaded[1].posts
        IN  /\ \A i \in 1..Len(corpus) : \A j \in i..Len(corpus) :
                  FromIsoFormat(corpus[i].collected_at)
                      <= FromIsoFormat(corpus[j].collected_at)
            /\ \A k \in 1..Len(corpus) : \A e \in InWindowEntries :
                  (corpus[k].id # "" /\ \E j \in 1..Len(e.posts) : e.posts[j].id = corpus[k].id)
                      => FromIsoFormat(corpus[k].collected_at)
                            <= FromIsoFormat(e.collected_at)

\* the id is an id of a post of the list
HasId(list, id) == \E i \in 1..Len(list) : list[i].id = id

\* C17: a post with a non-empty id that two consecutive scraper runs both
\* scrape (the earlier run within the two-day lookback of the later) is not
\* stored again by the later run.
C17_StoredOnlyByFirstRun ==
    [][ (scrapes > 0 /\ scrapes' = scrapes + 1
            /\ DateStr(now') - DateStr(now) < LookbackDays)
        => \A i \in 1..Len(raw_posts') :
              (raw_posts'[i].id # "" /\ HasId(raw_posts, raw_posts'[i].id))
                  => ~HasId(posts', raw_posts'[i].id) ]_vars

\* C18: a snapshot whose collected_at is malformed is skipped: the load
\* completes and returns the posts of the well-formed in-window snapshots.
C18_MalformedEntrySkipped ==
    loaded # <<>> =>
        /\ ~loaded[1].raised
        /\ \A e \in InWindowEntries : \A j \in 1..Len(e.posts) :
              HasId(loaded[1].posts, e.posts[j].id)

----------------------------------------------------------------------------
(* analyzer.py: the analyzer run *)

\* if len(posts) < 5
MinPosts == 5
\* models_to_try[:5]
MaxAttempts == 5

\* FREE_MODELS, in priority order
FREE_MODELS ==
    << "meta-llama/llama-3.2-3b-instruct:free",
       "google/gemma-3-1b-it:free",
       "mistralai/mistral-small-3.1-24b-instruct:free",
       "qwen/qwen3-4b:free" >>

\* ":free" in model_id, for the ids of the model
HasFreeSuffix(model_id) ==
    model_id \in { "meta-llama/llama-3.2-3b-instruct:free",
                   "google/gemma-3-1b-it:free",
                   "mistralai/mistral-small-3.1-24b-instruct:free",
                   "qwen/qwen3-4b:free",
                   "deepseek/deepseek-r1:free" }

\* what GET /models can list, in the order the provider lists it
Catalog ==
    << [id |-> "qwen/qwen3-4b:free", prompt |-> "0", completion |-> "0"],
       [id |-> "openai/gpt-4o", prompt |-> "0.0000025", completion |-> "0.00001"],
       [id |-> "meta-llama/llama-3.2-3b-instruct:free", prompt |-> "0", completion |-> "0"],
       [id |-> "openrouter/auto-zero", prompt |-> "0", completion |-> "0"],
       [id |-> "deepseek/deepseek-r1:free", prompt |-> "0", completion |-> "0.1"],
       [id |-> "google/gemma-3-1b-it:free", prompt |-> "0", completion |-> "0"],
       [id |-> "mistralai/mistral-small-3.1-24b-instruct:free", prompt |-> "0", completion |-> "0"] >>

\* the answers of GET /models: an exception, or a "data" list (a run of Catalog)
DiscoveryAnswers ==
    {[raised |-> TRUE, data |-> <<>>]}
    \cup {[raised |-> FALSE, data |-> SubSeq(Catalog, a, b)] :
            a \in 1..(Len(Catalog) + 1), b \in 0..Len(Catalog)}

\* the loop of get_available_free_models over the listed models
RECURSIVE FreeOf(_)
FreeOf(models) ==
    IF models = <<>> THEN <<>>
    ELSE LET model == Head(models)
             is_free == \/ HasFreeSuffix(model.id)
                        \/ (model.prompt = "0" /\ model.completion = "0")
         IN  (IF is_free THEN <<model.id>> ELSE <<>>) \o FreeOf(Tail(models))

\* get_available_free_models: the free ids, [] when the request raises
get_available_free_models(answer) ==
    IF answer.raised THEN <<>> ELSE FreeOf(answer.data)

\* model in list
InSeq(x, s) == \E i \in 1..Len(s) : s[i] = x

\* for model in FREE_MODELS: if model in available or not available: append
RECURSIVE PriorityModels(_, _)
PriorityModels(priority, avail) ==
    IF priority = <<>> THEN <<>>
    ELSE (IF InSeq(Head(priority), avail) \/ avail = <<>>
          THEN <<Head(priority)>> ELSE <<>>)
         \o PriorityModels(Tail(priority), avail)

\* (mutant) the second loop left out: no discovered model is added
WithDiscovered_PriorityOnly(models, avail) == models

\* for model in available: if model not in models_to_try: append
RECURSIVE WithDiscovered(_, _)
WithDiscovered(models, avail) ==
    IF avail = <<>> THEN models
    ELSE WithDiscovered(
            IF InSeq(Head(avail), models) THEN models ELSE Append(models, Head(avail)),
            Tail(avail))

\* models_to_try as analyze_with_fallback builds it
ModelsToTry(avail) == WithDiscovered(PriorityModels(FREE_MODELS, avail), avail)

\* (mutant) the fallback loop without its [:5]
Attempted_NoCap(models) == models

\* models_to_try[:5]
Attempted(models) ==
    SubSeq(models, 1, IF Len(models) < MaxAttempts THEN Len(models) ELSE MaxAttempts)

\* the characters str.strip() and str.rstrip() remove: every character for
\* which str.isspace() holds.  Those a string of this module cannot hold are
\* written as their code point
Whitespace ==
    { " ", "\n", "\t", "\r", "\f",
      "U+000B", "U+001C", "U+001D", "U+001E", "U+001F", "U+0085", "U+00A0",
      "U+1680", "U+2000", "U+2001", "U+2002", "U+2003", "U+2004", "U+2005",
      "U+2006", "U+2007", "U+2008", "U+2009", "U+200A", "U+2028", "U+2029",
      "U+202F", "U+205F", "U+3000" }

\* str.strip(): leading and trailing whitespace removed
RECURSIVE LStrip(_, _)
LStrip(s, chars) ==
    IF s # <<>> /\ Head(s) \in chars THEN LStrip(Tail(s), chars) ELSE s

RECURSIVE RStrip(_, _)
RStrip(s, chars) ==
    IF s # <<>> /\ s[Len(s)] \in chars THEN RStrip(SubSeq(s, 1, Len(s) - 1), chars) ELSE s

Strip(s) == RStrip(LStrip(s, Whitespace), Whitespace)

\* what client.chat.completions.create does: it raises, or answers with
\* message.content None or a text
ModelAnswers ==
    { [kind |-> "raise", content |-> <<>>],
      [kind |-> "none", content |-> <<>>],
      [kind |-> "text", content |-> <<>>],
      [kind |-> "text", content |-> <<" ", "\r", "\n">>],
      [kind |-> "text", content |-> <<"o", "k", "\n">>] }

\* (mutant) the empty-response check without content.strip()
analyze_with_ai_NoStrip(answer) ==
    IF answer.kind = "text" /\ answer.content # <<>> THEN <<answer.content>> ELSE <<>>

\* analyze_with_ai: the content when it is not blank, else None; an exception
\* of the call is caught and gives None
analyze_with_ai(answer) ==
    IF answer.kind = "raise" THEN <<>>
    ELSE IF answer.kind = "text" /\ answer.content # <<>> /\ Strip(answer.content) # <<>>
         THEN <<answer.content>>
         ELSE <<>>

\* "Error: OPENROUTER_API_KEY not set"
ErrNoKey ==
    << "E","r","r","o","r",":"," ","O","P","E","N","R","O","U","T","E","R","_",
       "A","P","I","_","K","E","Y"," ","n","o","t"," ","s","e","t" >>

\* "Error: " followed by the Korean for "analysis failed on every model"
ErrAllFailed ==
    << "E","r","r","o","r",":"," ","a","l","l"," ","m","o","d","e","l","s",
       " ","f","a","i","l","e","d" >>

\* save_analysis: the entry appended to the day's analysis file
AnalysisEntry(t, analysis, post_count, model) ==
    [analyzed_at |-> IsoFormat(t), model |-> model,
     post_count |-> post_count, analysis |-> analysis]

save_analysis(files, t, analysis, post_count, model) ==
    AppendToFile(files, DateStr(t), AnalysisEntry(t, analysis, post_count, model))

\* if len(posts) < 5
TooFew(corpus) == Len(corpus) < MinPosts

\* (mutant) the credential check as "api_key is None"
NoCredential_NoneOnly(key) == key = <<>>

\* if not api_key
NoCredential(key) == IF key = <<>> THEN TRUE ELSE key[1] = ""

\* (mutant) a failure returned under the name of the first priority model
FailureResult_NamedModel(message) == [model |-> FREE_MODELS[1], result |-> message]

\* return "", "Error: ...": the pair analyze_with_fallback returns on failure
FailureResult(message) == [model |-> "", result |-> message]

\* analyzer.main up to the input gate: load_recent_data(hours=24), which may
\* raise, then the return when fewer than 5 posts were loaded
AnalyzerStart ==
    /\ pc = "idle"
    /\ LET r == load_recent_data(logs, now, WindowHours)
       IN  /\ loaded' = <<r>>
           /\ unique_posts' = r.posts
           /\ pc' = IF r.raised THEN "crashed"
                    ELSE IF TooFew(r.posts) THEN "done" ELSE "fallback"
    /\ UNCHANGED <<now, logs, analysis_files, api_key, available, models_to_try,
                   calls, responses, discoveries, returned, saved,
                   saved_at>>
    /\ UNCHANGED scraperVars
    /\ UNCHANGED splitVars
    /\ UNCHANGED <<store_calls, notifierVars>>

\* analyze_with_fallback, a missing credential: return "", "Error: ... not set"
FallbackNoKey(key) ==
    /\ pc = "fallback"
    /\ NoCredential(key)
    /\ api_key' = key
    /\ returned' = <<FailureResult(ErrNoKey)>>
    /\ pc' = "save"
    /\ UNCHANGED <<now, logs, analysis_files, loaded, unique_posts, available,
                   models_to_try, calls, responses, discoveries, saved,
                   saved_at>>
    /\ UNCHANGED scraperVars
    /\ UNCHANGED splitVars
    /\ UNCHANGED <<store_calls, notifierVars>>

\* analyze_with_fallback with a credential: discovery and the candidate list
FallbackDiscover(key, answer) ==
    /\ pc = "fallback"
    /\ ~NoCredential(key)
    /\ api_key' = key
    /\ discoveries' = discoveries + 1
    /\ available' = get_available_free_models(answer)
    /\ models_to_try' = ModelsToTry(available')
    /\ pc' = "try"
    /\ UNCHANGED <<now, logs, analysis_files, loaded, unique_posts,
                   calls, responses, returned, saved,
                   saved_at>>
    /\ UNCHANGED scraperVars
    /\ UNCHANGED splitVars
    /\ UNCHANGED <<store_calls, notifierVars>>

\* one iteration of "for model in models_to_try[:5]": the call, and the return
\* when its result is usable
TryModel(answer) ==
    /\ pc = "try"
    /\ Len(calls) < Len(Attempted(models_to_try))
    /\ LET model == Attempted(models_to_try)[Len(calls) + 1]
           result == analyze_with_ai(answer)
       IN  /\ calls' = Append(calls, model)
           /\ responses' = Append(responses, answer)
           /\ IF result # <<>> /\ result[1] # <<>>
              THEN /\ returned' = <<[model |-> model, result |-> result[1]]>>
                   /\ pc' = "save"
              ELSE /\ UNCHANGED returned
                   /\ pc' = "try"
    /\ UNCHANGED <<now, logs, analysis_files, loaded, unique_posts, api_key,
                   available, models_to_try, discoveries, saved,
                   saved_at>>
    /\ UNCHANGED scraperVars
    /\ UNCHANGED splitVars
    /\ UNCHANGED <<store_calls, notifierVars>>

\* the loop ran out of candidates: return "", "Error: ..."
FallbackExhausted ==
    /\ pc = "try"
    /\ Len(calls) = Len(Attempted(models_to_try))
    /\ returned' = <<FailureResult(ErrAllFailed)>>
    /\ pc' = "save"
    /\ UNCHANGED <<now, logs, analysis_files, loaded, unique_posts, api_key,
                   available, models_to_try, calls, responses, discoveries, saved,
                   saved_at>>
    /\ UNCHANGED scraperVars
    /\ UNCHANGED splitVars
    /\ UNCHANGED <<store_calls, notifierVars>>

\* analyzer.main after analyze_with_fallback: save_analysis(analysis, len(posts), model)
AnalyzerSave(delay) ==
    /\ pc = "save"
    /\ now' = now + delay
    /\ saved_at' = <<now'>>
    /\ analysis_files' = save_analysis(analysis_files, now', returned[1].result,
                                       Len(unique_posts), returned[1].model)
    /\ saved' = saved + 1
    /\ pc' = "done"
    /\ UNCHANGED <<logs, loaded, unique_posts, api_key, available,
                   models_to_try, calls, responses, discoveries, returned>>
    /\ UNCHANGED scraperVars
    /\ UNCHANGED splitVars
    /\ UNCHANGED <<store_calls, notifierVars>>

----------------------------------------------------------------------------
(* The analyzer run over a log whose last snapshot holds n posts *)

\* most posts in the snapshot the run aggregates
MaxCorpus == 6

\* the credentials the environment can hold: unset, empty, set
ApiKeys == {<<>>, <<"">>, <<"sk-or-v1">>}

\* the ids of the n posts of a scraped page, newest first
PostIds == <<"6", "5", "4", "3", "2", "1", "">>

\* a snapshot with the n first posts of the board, stored by a scraper run
BoardSnapshot(t, n) ==
    LogEntry(t, [i \in 1..n |-> RawPost(IF i <= Len(PostIds) THEN PostIds[i] ELSE "", "A")], n)

\* the hour at which the analyzer run starts (23:00 of day 1); the scraper
\* ran the hour before
AnalyzerTimes == {47}

\* hours between the clock reading of load_recent_data and the one of
\* save_analysis: the same hour, or the next (here: past midnight)
RunHours == {0, 1}

\* the log area the run starts from
AnalyzerLogs(t) ==
    {[d \in {DateStr(t - 1)} |-> <<BoardSnapshot(t - 1, n)>>] : n \in 0..MaxCorpus}
    \cup {[d \in {DateStr(t - 1)} |-> <<e>>] : e \in SeedEntries}
    \cup {<<>>}

\* the analysis area the run starts from: no file, or a file with an earlier entry
AnalyzerFiles(t) ==
    {<<>>, [d \in {DateStr(t)} |-> <<AnalysisEntry(t - 1, <<"o", "l", "d">>, MinPosts, FREE_MODELS[1])>>]}

Init ==
    /\ now \in AnalyzerTimes
    /\ logs \in AnalyzerLogs(now)
    /\ analysis_files \in AnalyzerFiles(now)
    /\ scrapes = 0
    /\ raw_posts = <<>>
    /\ latest_entry = <<>>
    /\ posts = <<>>
    /\ loaded = <<>>
    /\ pc = "idle"
    /\ unique_posts = <<>>
    /\ api_key = <<>>
    /\ available = <<>>
    /\ models_to_try = <<>>
    /\ calls = <<>>
    /\ responses = <<>>
    /\ discoveries = 0
    /\ returned = <<>>
    /\ saved = 0
    /\ saved_at = <<>>
    /\ text = NoText
    /\ max_len = 1
    /\ remaining = NoText
    /\ parts = <<>>
    /\ InitNotifierIdle

Next ==
    \/ AnalyzerStart
    \/ \E key \in ApiKeys : FallbackNoKey(key)
    \/ \E key \in ApiKeys, answer \in DiscoveryAnswers : FallbackDiscover(key, answer)
    \/ \E answer \in ModelAnswers : TryModel(answer)
    \/ FallbackExhausted
    \/ \E delay \in RunHours : AnalyzerSave(delay)

Spec == Init /\ [][Next]_vars

----------------------------------------------------------------------------
(* Claims about the analyzer run, checked under Spec *)

\* the entries the run appended to the day's analysis file
AppendedEntries ==
    LET file == FileEntries(analysis_files, DateStr(now))
    IN  {i \in 1..Len(file) : file[i].analyzed_at = IsoFormat(now)}

\* the last entry of the day's analysis file
LastAnalysis ==
    LET file == FileEntries(analysis_files, DateStr(now)) IN file[Len(file)]

\* a model answer that carries a text with a character that is not whitespace
UsableAnswer(answer) ==
    /\ answer.kind = "text"
    /\ \E i \in 1..Len(answer.content) : answer.content[i] \notin Whitespace

\* the run got no usable model output
NoUsableOutput ==
    \A i \in 1..Len(responses) : ~UsableAnswer(responses[i])

\* the credential of the run is missing
CredentialMissing == api_key = <<>> \/ api_key = <<"">>

\* the stored entry is the answer of a successful call of the model it names
Genuine(entry) ==
    \E i \in 1..Len(calls) :
        /\ calls[i] = entry.model
        /\ UsableAnswer(responses[i])
        /\ responses[i].content = entry.analysis

\* the text starts with "Error:"
IsErrorMessage(t) ==
    Len(t) > 6 /\ SubSeq(t, 1, 6) = <<"E", "r", "r", "o", "r", ":">>

\* C4: every analyzer run that terminates, whatever the corpus size, has
\* appended exactly one entry to the day's analysis file.
C4_EveryRunAppendsOneEntry ==
    pc = "done" => (saved = 1 /\ Cardinality(AppendedEntries) = 1)

\* C5 as claimed: a run without usable model output persists a result whose
\* model identifier is "error" with a non-empty message, and a persisted result
\* with another identifier comes from a successful model call.
C5_Original_ErrorSentinel ==
    (pc = "done" /\ saved = 1) =>
        /\ NoUsableOutput => (LastAnalysis.model = "error" /\ LastAnalysis.analysis # <<>>)
        /\ LastAnalysis.model # "error" => Genuine(LastAnalysis)

\* C5 (amended): a run without usable model output persists a result whose
\* model identifier is the empty string and whose analysis is a message
\* starting with "Error:"; a persisted result with a non-empty identifier
\* is the non-blank answer of a successful call of that model.
C5_EmptyModelMarksFailure ==
    (pc = "done" /\ saved = 1) =>
        /\ NoUsableOutput =>
              (LastAnalysis.model = "" /\ IsErrorMessage(LastAnalysis.analysis))
        /\ LastAnalysis.model # "" => Genuine(LastAnalysis)

\* C5 witness: five models were tried, each failed or answered blank, and the
\* failure was persisted
C5_Witness ==
    /\ pc = "done" /\ saved = 1
    /\ Len(calls) = MaxAttempts
    /\ NoUsableOutput
    /\ \E i \in 1..Len(responses) : responses[i].kind = "raise"
    /\ \E i \in 1..Len(responses) : responses[i].kind = "text"
    /\ LastAnalysis.analysis = ErrAllFailed

\* C6: the models are called one at a time in candidate order, at most 5 per
\* run, none after the first usable answer, and the pair returned is that of
\* the first of the first 5 candidates whose answer was usable.
C6_FirstUsableOfFirstFive ==
    /\ Len(calls) <= MaxAttempts
    /\ Len(calls) <= Len(models_to_try)
    /\ Len(responses) = Len(calls)
    /\ \A i \in 1..Len(calls) : calls[i] = models_to_try[i]
    /\ \A i \in 1..(Len(calls) - 1) : ~UsableAnswer(responses[i])
    /\ (returned # <<>> /\ returned[1].model # "") =>
          /\ calls # <<>>
          /\ UsableAnswer(responses[Len(calls)])
          /\ returned[1].model = models_to_try[Len(calls)]
          /\ returned[1].result = responses[Len(calls)].content
    /\ (returned # <<>> /\ returned[1].model = "" /\ ~CredentialMissing) =>
          /\ NoUsableOutput
          /\ \/ Len(calls) = MaxAttempts
             \/ Len(calls) = Len(models_to_try)

\* C6 witness: six candidates, the fifth is the first to answer usably and is
\* the one returned
C6_Witness ==
    /\ Len(models_to_try) > MaxAttempts
    /\ Len(calls) = MaxAttempts
    /\ returned # <<>>
    /\ returned[1].model = models_to_try[MaxAttempts]
    /\ pc = "done"

\* C7: a blank answer (None, empty or whitespace only) is handled like an
\* exception of the call: the run is not aborted, the answer is discarded and
\* the next candidate is tried, and no blank text is ever persisted as an analysis.
C7_BlankAnswerIsAFailure ==
    /\ calls # <<>> => pc \in {"try", "save", "done"}
    /\ \A i \in 1..Len(responses) :
          ~UsableAnswer(responses[i]) =>
              \/ i < Len(calls)
              \/ pc = "try"
              \/ /\ returned # <<>>
                 /\ returned[1].model = ""
                 /\ i = Len(Attempted(models_to_try))
    /\ \A d \in DOMAIN analysis_files : \A i \in 1..Len(analysis_files[d]) :
          \E k \in 1..Len(analysis_files[d][i].analysis) :
              analysis_files[d][i].analysis[k] \notin Whitespace

\* C7 witness: an exception, then a whitespace-only answer, then an empty
\* answer, then a usable answer that is persisted
C7_Witness ==
    /\ pc = "done" /\ saved = 1
    /\ Len(calls) = 4
    /\ responses[1].kind = "raise"
    /\ responses[2].kind = "text" /\ responses[2].content = <<" ", "\r", "\n">>
    /\ responses[3].kind = "text" /\ responses[3].content = <<>>
    /\ UsableAnswer(responses[4])
    /\ LastAnalysis.analysis = responses[4].content

\* C8: with fewer than 5 aggregated posts, or without a credential, no model
\* call and no discovery call is made; a missing credential gives the single
\* synthesized result "Error: OPENROUTER_API_KEY not set", which is persisted.
C8_NoCallWithoutInputOrCredential ==
    /\ (loaded # <<>> /\ Len(unique_posts) < MinPosts) =>
          (calls = <<>> /\ discoveries = 0 /\ pc \in {"done", "crashed"})
    /\ CredentialMissing => (calls = <<>> /\ discoveries = 0)
    /\ (CredentialMissing /\ pc \in {"save", "done"} /\ Len(unique_posts) >= MinPosts) =>
          returned = <<[model |-> "", result |-> ErrNoKey]>>
    /\ (CredentialMissing /\ pc = "done" /\ Len(unique_posts) >= MinPosts) =>
          /\ Cardinality(AppendedEntries) = 1
          /\ LastAnalysis.model = "" /\ LastAnalysis.analysis = ErrNoKey

\* C8 witness: a run over at least 5 posts whose credential is the empty string
\* has persisted the synthesized result without any call
C8_Witness ==
    /\ pc = "done" /\ saved = 1
    /\ Len(unique_posts) >= MinPosts
    /\ api_key = <<"">>
    /\ calls = <<>> /\ discoveries = 0
    /\ LastAnalysis.analysis = ErrNoKey

\* the static priority list restricted to the discovered models, the whole
\* list when nothing was discovered
PriorityRestricted ==
    IF available = <<>> THEN FREE_MODELS
    ELSE SelectSeq(FREE_MODELS, LAMBDA m : InSeq(m, available))

\* the discovered models that are not in the static priority list
DiscoveredExtras == SelectSeq(available, LAMBDA m : ~InSeq(m, FREE_MODELS))

\* C19 (as stated): the candidate list is the static priority list restricted
\* to the discovered free models, the whole static list when discovery fails
\* or returns nothing, and every attempted model is in the static list.
C19_Original_OnlyPriorityModels ==
    discoveries > 0 =>
        /\ models_to_try = PriorityRestricted
        /\ \A i \in 1..Len(calls) : InSeq(calls[i], FREE_MODELS)

\* C19 (amended): the candidate list is the static priority list restricted to
\* the discovered free models, in priority order, followed by the discovered
\* free models that are not in the static list, in discovery order; it is the
\* whole static list when discovery fails or returns nothing; every attempted
\* model is in the static list or was discovered.
C19_PriorityThenDiscovered ==
    discoveries > 0 =>
        /\ models_to_try = PriorityRestricted \o DiscoveredExtras
        /\ available = <<>> => models_to_try = FREE_MODELS
        /\ \A i \in 1..Len(calls) :
              InSeq(calls[i], FREE_MODELS) \/ InSeq(calls[i], available)

\* C19 witness: a finished run that called a discovered model outside the
\* static priority list
C19_Witness ==
    /\ pc = "done"
    /\ discoveries > 0
    /\ \E i \in 1..Len(calls) : ~InSeq(calls[i], FREE_MODELS)

----------------------------------------------------------------------------
(* The two stores: save_log and save_analysis called by one process *)

\* hours between two calls: the same hour, the next hour, the next day
StoreDelays == {0, 1, 24}

\* the posts lists handed to save_log
StorePosts ==
    { <<>>, <<RawPost("1", "A")>>, <<RawPost("1", "A"), RawPost("", "A")>> }

\* the (analysis, post_count, model) triples handed to save_analysis
StoreAnalyses ==
    { [analysis |-> <<"o", "k">>, post_count |-> 5,
       model |-> "qwen/qwen3-4b:free"],
      [analysis |-> ErrAllFailed, post_count |-> 6, model |-> ""] }

\* save_log(posts, raw_post_count) called `delay` hours after the previous call
CallSaveLog(new, extra, delay) ==
    /\ store_calls < MaxCalls
    /\ now' = now + delay
    /\ logs' = save_log(logs, now', new, Len(new) + extra)
    /\ store_calls' = store_calls + 1
    /\ UNCHANGED <<analysis_files, loaded, pc>>
    /\ UNCHANGED scraperVars
    /\ UNCHANGED analyzerVars
    /\ UNCHANGED splitVars
    /\ UNCHANGED notifierVars

\* save_analysis(analysis, post_count, model) called `delay` hours after the
\* previous call
CallSaveAnalysis(a, delay) ==
    /\ store_calls < MaxCalls
    /\ now' = now + delay
    /\ analysis_files' = save_analysis(analysis_files, now', a.analysis,
                                       a.post_count, a.model)
    /\ store_calls' = store_calls + 1
    /\ UNCHANGED <<logs, loaded, pc>>
    /\ UNCHANGED scraperVars
    /\ UNCHANGED analyzerVars
    /\ UNCHANGED splitVars
    /\ UNCHANGED notifierVars

\* the analysis files already in data/analysis: none, or today's with one entry
SeedAnalysisFiles ==
    { <<>>, [d \in {0} |-> <<AnalysisEntry(22, <<"o", "k">>, 5, "qwen/qwen3-4b:free")>>] }

InitStore ==
    /\ now \in StartTimes
    /\ logs \in SeedLogs
    /\ analysis_files \in SeedAnalysisFiles
    /\ scrapes = 0
    /\ raw_posts = <<>>
    /\ latest_entry = <<>>
    /\ posts = <<>>
    /\ loaded = <<>>
    /\ pc = "idle"
    /\ unique_posts = <<>>
    /\ api_key = <<>>
    /\ available = <<>>
    /\ models_to_try = <<>>
    /\ calls = <<>>
    /\ responses = <<>>
    /\ discoveries = 0
    /\ returned = <<>>
    /\ saved = 0
    /\ saved_at = <<>>
    /\ text = NoText
    /\ max_len = 1
    /\ remaining = NoText
    /\ parts = <<>>
    /\ InitNotifierIdle

NextStore ==
    \/ \E new \in StorePosts, extra \in {0, 1}, delay \in StoreDelays :
          CallSaveLog(new, extra, delay)
    \/ \E a \in StoreAnalyses, delay \in StoreDelays : CallSaveAnalysis(a, delay)

SpecStore == InitStore /\ [][NextStore]_vars

\* the day's file d of `after` is the file of `before` with one entry added
\* at the end, and every other file is as it was
AppendedOne(before, after, d) ==
    /\ DOMAIN after = (DOMAIN before) \cup {d}
    /\ \A x \in (DOMAIN before) \ {d} : after[x] = before[x]
    /\ Len(after[d]) = Len(FileEntries(before, d)) + 1
    /\ \A i \in 1..Len(FileEntries(before, d)) : after[d][i] = before[d][i]

\* C13: each save_log / save_analysis call leaves every stored entry of the
\* day's file unchanged and in place, adds exactly one entry at the end, and
\* touches no other file; save_log's entry has post_count = number of posts.
C13_StoresOnlyAppend ==
    [][ store_calls' = store_calls + 1 =>
          \/ /\ AppendedOne(logs, logs', DateStr(now'))
             /\ LET e == logs'[DateStr(now')][Len(logs'[DateStr(now')])]
                IN  e.post_count = Len(e.posts)
             /\ analysis_files' = analysis_files
          \/ /\ AppendedOne(analysis_files, analysis_files', DateStr(now'))
             /\ logs' = logs ]_vars

\* C13 witness: after three calls the log file of day 0 holds its two earlier
\* entries and one more, and the analysis file of day 0 its earlier entry and
\* two more
C13_Witness ==
    /\ store_calls = 3
    /\ 0 \in DOMAIN logs /\ Len(logs[0]) = 3
    /\ logs[0][1] = SeedSnapshot
    /\ 0 \in DOMAIN analysis_files /\ Len(analysis_files[0]) = 3

----------------------------------------------------------------------------
(* notifier.py: split_text *)

\* longest text given to split_text
MaxText == 5
\* largest max_len given to split_text
MaxLen == 3

\* the characters of the texts
Chars == {"a", "b", " ", "\n", "\r"}

Texts == SeqsUpTo(Chars, MaxText)

\* remaining[a:]: the slice from 0-based index a to the end
SliceFrom(s, a) == SubSeq(s, a + 1, Len(s))

\* remaining[:b]: the slice before 0-based index b
SliceTo(s, b) == SubSeq(s, 1, IF b < Len(s) THEN b ELSE Len(s))

\* str.rfind(ch, 0, end): the highest 0-based index below end that holds ch, or -1
RFind(s, ch, end) ==
    LET found == {i \in 0..(Len(s) - 1) : i < end /\ s[i + 1] = ch}
    IN  IF found = {} THEN -1 ELSE CHOOSE i \in found : \A j \in found : j <= i

\* (mutant) a hard cut one character too far
CutPoint_PastMax(rem, n) ==
    IF RFind(rem, "\n", n) = -1 THEN n + 1 ELSE RFind(rem, "\n", n)

\* cut = remaining.rfind("\n", 0, max_len); if cut == -1: cut = max_len
CutPoint(rem, n) ==
    IF RFind(rem, "\n", n) = -1 THEN n ELSE RFind(rem, "\n", n)

\* (mutant) the character at the cut is always skipped
Remainder_SkipsOne(rem, cut) == LStrip(SliceFrom(rem, cut + 1), {"\n"})

\* (mutant) the newlines at the cut are kept
Remainder_KeepsNewlines(rem, cut) == SliceFrom(rem, cut)

\* remaining = remaining[cut:].lstrip("\n")
Remainder(rem, cut) == LStrip(SliceFrom(rem, cut), {"\n"})

\* parts.append(remaining[:cut].rstrip())
Part(rem, cut) == RStrip(SliceTo(rem, cut), Whitespace)

\* split_text, up to the loop: if not text: return [""]
SplitEnter ==
    /\ pc = "call"
    /\ IF text = <<>>
       THEN /\ parts' = << <<>> >>
            /\ remaining' = remaining
            /\ pc' = "returned"
       ELSE /\ parts' = <<>>
            /\ remaining' = text
            /\ pc' = "loop"
    /\ UNCHANGED <<now, logs, analysis_files, loaded, text, max_len>>
    /\ UNCHANGED scraperVars
    /\ UNCHANGED analyzerVars
    /\ UNCHANGED <<store_calls, notifierVars>>

\* one iteration of "while len(remaining) > max_len"
SplitCut ==
    /\ pc = "loop"
    /\ Len(remaining) > max_len
    /\ LET cut == CutPoint(remaining, max_len)
       IN  /\ parts' = Append(parts, Part(remaining, cut))
           /\ remaining' = Remainder(remaining, cut)
    /\ UNCHANGED <<now, logs, analysis_files, loaded, pc, text, max_len>>
    /\ UNCHANGED scraperVars
    /\ UNCHANGED analyzerVars
    /\ UNCHANGED <<store_calls, notifierVars>>

\* the end of the loop: parts.append(remaining); return parts
SplitReturn ==
    /\ pc = "loop"
    /\ Len(remaining) <= max_len
    /\ parts' = Append(parts, remaining)
    /\ pc' = "returned"
    /\ UNCHANGED <<now, logs, analysis_files, loaded, text, max_len, remaining>>
    /\ UNCHANGED scraperVars
    /\ UNCHANGED analyzerVars
    /\ UNCHANGED <<store_calls, notifierVars>>

InitSplit ==
    /\ now \in StartTimes
    /\ logs = <<>>
    /\ analysis_files = <<>>
    /\ scrapes = 0
    /\ raw_posts = <<>>
    /\ latest_entry = <<>>
    /\ posts = <<>>
    /\ loaded = <<>>
    /\ pc = "call"
    /\ unique_posts = <<>>
    /\ api_key = <<>>
    /\ available = <<>>
    /\ models_to_try = <<>>
    /\ calls = <<>>
    /\ responses = <<>>
    /\ discoveries = 0
    /\ returned = <<>>
    /\ saved = 0
    /\ saved_at = <<>>
    /\ text \in Texts
    /\ max_len \in 1..MaxLen
    /\ remaining = NoText
    /\ parts = <<>>
    /\ InitNotifierIdle

NextSplit ==
    \/ SplitEnter
    \/ SplitCut
    \/ SplitReturn

SpecSplit == InitSplit /\ [][NextSplit]_vars

\* split_text is straight-line code in one thread: a step that can be taken is taken
SpecSplitFair == SpecSplit /\ WF_vars(NextSplit)

----------------------------------------------------------------------------
(* Claims about split_text, checked under SpecSplit *)

\* the sum of the lengths of the parts
RECURSIVE TotalLen(_)
TotalLen(ps) == IF ps = <<>> THEN 0 ELSE Len(Head(ps)) + TotalLen(Tail(ps))

\* t is the parts ps with a run of whitespace (possibly empty) put back
\* between each part and the next
RECURSIVE Reinserted(_, _)
Reinserted(t, ps) ==
    IF Len(ps) = 1 THEN t = ps[1]
    ELSE /\ Len(t) >= Len(ps[1])
         /\ SubSeq(t, 1, Len(ps[1])) = ps[1]
         /\ \E k \in 0..(Len(t) - Len(ps[1])) :
               /\ \A i \in (Len(ps[1]) + 1)..(Len(ps[1]) + k) : t[i] \in Whitespace
               /\ Reinserted(SubSeq(t, Len(ps[1]) + k + 1, Len(t)), Tail(ps))

\* C9: split_text returns a non-empty sequence whose parts are all at most
\* max_len long, and exactly one empty part for the empty text.
C9_PartsFitMaxLen ==
    pc = "returned" =>
        /\ Len(parts) >= 1
        /\ \A i \in 1..Len(parts) : Len(parts[i]) <= max_len
        /\ text = <<>> => parts = << <<>> >>

\* C9 witness: a text without newline cut into three parts, the first two of
\* them max_len long
C9_Witness ==
    /\ pc = "returned"
    /\ max_len = 2
    /\ Len(text) = 5
    /\ Len(parts) = 3
    /\ Len(parts[1]) = max_len /\ Len(parts[2]) = max_len

\* C10 as claimed: at most one character is lost per cut, so the parts sum to
\* at least len(text) minus the number of cuts.
C10_Original_OneNewlinePerCut ==
    pc = "returned" => TotalLen(parts) >= Len(text) - (Len(parts) - 1)

\* C10 (amended): the parts lose nothing but whitespace at the cuts, any
\* number of characters per cut: the input is the parts with a run of
\* whitespace put back between each part and the next, so the parts sum to
\* at most len(text) and every other character is kept, in order.
C10_OnlyWhitespaceLostAtCuts ==
    pc = "returned" =>
        /\ Reinserted(text, parts)
        /\ TotalLen(parts) <= Len(text)

\* C10 witness: one cut at a newline that is preceded by a space and followed
\* by a second newline: three characters are lost at one cut
C10_Witness ==
    /\ pc = "returned"
    /\ text = <<"a", " ", "\n", "\n", "b">>
    /\ max_len = 3
    /\ parts = << <<"a">>, <<"b">> >>

\* C20: split_text terminates for every text and every max_len >= 1: each
\* iteration of the loop strictly shortens the remaining text, also when the
\* cut is a newline at position 0, and the number of parts never exceeds
\* len(text) + 1.
C20_SplitTextTerminates ==
    /\ <>(pc = "returned")
    /\ [][SplitCut => Len(remaining') < Len(remaining)]_vars
    /\ [](Len(parts) <= Len(text) + 1)

\* C20 witness: the text starts with a newline and max_len is 1, so the cut is
\* the newline at position 0: the first part is empty and the call returned
C20_Witness ==
    /\ pc = "returned"
    /\ text = <<"\n", "a">>
    /\ max_len = 1
    /\ parts = << <<>>, <<"a">> >>

----------------------------------------------------------------------------
(* notifier.py: the notifier run *)

\* MAX_BODY_LEN = 3000
MAX_BODY_LEN == 3000
\* longest results list of an analysis entry
MaxResults == 2

\* (mutant) data[0] instead of data[-1]
get_latest_analysis_First(files, t) ==
    IF DateStr(t) \notin DOMAIN files THEN <<>>
    ELSE IF files[DateStr(t)] = <<>> THEN <<>>
    ELSE <<files[DateStr(t)][1]>>

\* get_latest_analysis: the last entry of today's file, None when the file is
\* absent or holds an empty list
get_latest_analysis(files, t) ==
    IF DateStr(t) \notin DOMAIN files THEN <<>>
    ELSE IF files[DateStr(t)] = <<>> THEN <<>>
    ELSE <<files[DateStr(t)][Len(files[DateStr(t)])]>>

\* str.replace(pat, ""): the occurrences of pat, found left to right without
\* overlap, removed: the text before the first occurrence, then the same for
\* the text after it
RECURSIVE RemoveAll(_, _)
RemoveAll(s, pat) ==
    LET found == {i \in 1..(Len(s) - Len(pat) + 1) :
                    \A k \in 1..Len(pat) : s[i + k - 1] = pat[k]}
    IN  IF found = {} THEN s
        ELSE LET first == CHOOSE i \in found : \A j \in found : i <= j
             IN  SubSeq(s, 1, first - 1)
                    \o RemoveAll(SubSeq(s, first + Len(pat), Len(s)), pat)

\* the backquote character, which a string of this module cannot hold
Backquote == "BACKQUOTE"

\* clean_text: the five replace calls, in the order of the source
clean_text(t) ==
    RemoveAll(RemoveAll(RemoveAll(RemoveAll(RemoveAll(t,
        <<"*", "*">>), <<"*">>), <<Backquote>>), <<"#", "#">>), <<"#">>)

\* the placeholder sent for an empty analysis (Korean for "no analysis
\* result", 8 characters in the source; one symbol here)
NoAnalysisText == <<"(no analysis result)">>

\* split_text as a function: the loop of SplitCut steps, then SplitReturn
RECURSIVE SplitLoop(_, _, _)
SplitLoop(rem, n, ps) ==
    IF Len(rem) > n
    THEN SplitLoop(Remainder(rem, CutPoint(rem, n)), n,
                   Append(ps, Part(rem, CutPoint(rem, n))))
    ELSE Append(ps, rem)

split_text(t, n) == IF t = <<>> THEN << <<>> >> ELSE SplitLoop(t, n, <<>>)

\* results = entry.get("results", []); the legacy single-model shape is
\* turned into a list of one result
NormalizedResults(e) ==
    LET given == IF "results" \in DOMAIN e THEN e.results ELSE <<>>
    IN  IF given = <<>> /\ "analysis" \in DOMAIN e
        THEN <<[model |-> IF "model" \in DOMAIN e THEN e.model ELSE "unknown",
                analysis |-> e.analysis]>>
        ELSE given

\* result["model"].split("/")[-1].replace(":free", ""), for the ids of the model
ModelName(model) ==
    CASE model = "meta-llama/llama-3.2-3b-instruct:free" -> "llama-3.2-3b-instruct"
      [] model = "google/gemma-3-1b-it:free" -> "gemma-3-1b-it"
      [] model = "mistralai/mistral-small-3.1-24b-instruct:free"
            -> "mistral-small-3.1-24b-instruct"
      [] model = "qwen/qwen3-4b:free" -> "qwen3-4b"
      [] model = "deepseek/deepseek-r1:free" -> "deepseek-r1"
      [] model = "openrouter/auto-zero" -> "auto-zero"
      [] model = "openai/gpt-4o" -> "gpt-4o"
      [] OTHER -> model

\* build_header: "[index/total] model_name", the hour of analyzed_at and the
\* post count of the entry
build_header(e, result, index, total) ==
    [index |-> index, total |-> total,
     model_name |-> ModelName(result.model),
     time |-> FromIsoFormat(e.analyzed_at) % HoursPerDay,
     post_count |-> IF "post_count" \in DOMAIN e THEN e.post_count ELSE 0]

\* clean_text(result.get("analysis", "")) or the placeholder
Body(result) ==
    LET cleaned == clean_text(IF "analysis" \in DOMAIN result
                              THEN result.analysis ELSE <<>>)
    IN  IF cleaned = <<>> THEN NoAnalysisText ELSE cleaned

\* parts = split_text(analysis, MAX_BODY_LEN)
PartsOf(result) == split_text(Body(result), MAX_BODY_LEN)

\* message: the header, the "(part p/n)" line when there are several parts,
\* and the part
Message(e, result, index, total, ps, p_index) ==
    [header |-> build_header(e, result, index, total),
     part_label |-> IF Len(ps) > 1
                    THEN <<[part |-> p_index, of |-> Len(ps)]>>
                    ELSE <<>>,
     body |-> ps[p_index]]

\* what the Telegram API call does: 2xx, an error status, a network exception
TelegramAnswers == {"ok", "http_error", "exception"}

\* send_telegram: False without token or chat id, True only for a 2xx answer
send_telegram(env, answer) == IF ~env THEN FALSE ELSE answer = "ok"

\* (mutant) all_sent takes the outcome of the last delivery
AllSentAfter_LastOnly(before, ok) == ok

\* if not send_telegram(message): all_sent = False
AllSentAfter(before, ok) == IF ~ok THEN FALSE ELSE before

\* (mutant) the exit status does not depend on success_count
ExitStatus_AlwaysZero(count) == 0

\* if success_count == 0: exit(1); otherwise main returns
ExitStatus(count) == IF count = 0 THEN 1 ELSE 0

\* notifier.main up to the delivery loop, delay hours after the entry was
\* written: read the latest analysis, normalize it, return if there is
\* nothing to send
NotifierStart(env, delay) ==
    /\ pc \in {"notifier", "done"}
    /\ now' = now + delay
    /\ telegram_env' = env
    /\ latest_analysis' = get_latest_analysis(analysis_files, now')
    /\ results' = IF latest_analysis' = <<>> THEN <<>>
                  ELSE NormalizedResults(latest_analysis'[1])
    /\ all_sent' = TRUE
    /\ success_count' = 0
    /\ sent' = <<>>
    /\ IF results' = <<>>
       THEN /\ pc' = "exited"
            /\ exit_code' = <<0>>
            /\ result_index' = 0
            /\ part_index' = 0
            /\ body_parts' = <<>>
       ELSE /\ pc' = "send"
            /\ exit_code' = <<>>
            /\ result_index' = 1
            /\ part_index' = 1
            /\ body_parts' = PartsOf(results'[1])
    /\ UNCHANGED <<logs, analysis_files, loaded, store_calls>>
    /\ UNCHANGED scraperVars
    /\ UNCHANGED analyzerVars
    /\ UNCHANGED splitVars

\* one pass of the inner loop: a part is formatted and handed to
\* send_telegram; after the last part of a result success_count is updated
\* and the next result, if any, is cleaned and split
SendPart(answer) ==
    /\ pc = "send"
    /\ LET result == results[result_index]
           ok == send_telegram(telegram_env, answer)
           still == AllSentAfter(all_sent, ok)
           last == part_index = Len(body_parts)
       IN  /\ sent' = Append(sent,
                  [result |-> result_index, part |-> part_index, ok |-> ok,
                   message |-> Message(latest_analysis[1], result, result_index,
                                       Len(results), body_parts, part_index)])
           /\ IF last
              THEN /\ success_count' = IF still THEN success_count + 1
                                       ELSE success_count
                   /\ result_index' = result_index + 1
                   /\ part_index' = 1
                   /\ IF result_index < Len(results)
                      THEN /\ body_parts' = PartsOf(results[result_index + 1])
                           /\ all_sent' = TRUE
                           /\ pc' = "send"
                      ELSE /\ body_parts' = body_parts
                           /\ all_sent' = still
                           /\ pc' = "finish"
              ELSE /\ all_sent' = still
                   /\ part_index' = part_index + 1
                   /\ UNCHANGED <<success_count, result_index, body_parts, pc>>
    /\ UNCHANGED <<now, logs, analysis_files, loaded, store_calls, telegram_env,
                   latest_analysis, results, exit_code>>
    /\ UNCHANGED scraperVars
    /\ UNCHANGED analyzerVars
    /\ UNCHANGED splitVars

\* the end of notifier.main: exit(1) when no result was fully delivered
NotifierExit ==
    /\ pc = "finish"
    /\ exit_code' = <<ExitStatus(success_count)>>
    /\ pc' = "exited"
    /\ UNCHANGED <<now, logs, analysis_files, loaded, store_calls, telegram_env,
                   latest_analysis, results, result_index, part_index, body_parts,
                   all_sent, success_count, sent>>
    /\ UNCHANGED scraperVars
    /\ UNCHANGED analyzerVars
    /\ UNCHANGED splitVars

----------------------------------------------------------------------------
(* The notifier run over the analysis files it can find *)

\* hours between the writing of the entry and the notifier run: within the
\* hour, a day later
NotifyDelays == {0, 24}

NotifyTimes == {25}

\* a line of MAX_BODY_LEN - 1 characters
LongLine == [i \in 1..(MAX_BODY_LEN - 1) |-> "a"]

\* analysis texts: only markdown symbols; two short lines with a markdown
\* symbol (one part); a long line and a short one, more than MAX_BODY_LEN
\* characters after cleaning (two parts)
NotifyTexts ==
    { <<"*", "*">>,
      <<"a", "\n", "b", "*", "c", "d">>,
      LongLine \o <<"\n", "*", "b", "c">> }

\* the results of an entry in the results shape
NotifyResults ==
    {[model |-> "qwen/qwen3-4b:free", analysis |-> a] : a \in NotifyTexts}
    \cup {[model |-> "google/gemma-3-1b-it:free", analysis |-> <<"*", "*">>]}

\* the entries the notifier can find last in today's file: the results shape
\* with up to MaxResults results, and the shape save_analysis writes, with and
\* without a model
NotifyEntries(t) ==
    {[analyzed_at |-> IsoFormat(t), post_count |-> MinPosts, results |-> rs] :
        rs \in SeqsUpTo(NotifyResults, MaxResults)}
    \cup {AnalysisEntry(t, a, MinPosts, m) :
            a \in NotifyTexts \cup {<<>>, ErrAllFailed}, m \in {"", "qwen/qwen3-4b:free"}}
    \cup {[analyzed_at |-> IsoFormat(t), post_count |-> MinPosts, analysis |-> <<"a">>]}

\* data/analysis when the notifier starts: no file, an empty list, or a file
\* ending with one of the entries
NotifyFiles(t) ==
    {<<>>, [d \in {DateStr(t)} |-> <<>>]}
    \cup {[d \in {DateStr(t)} |-> <<e>>] : e \in NotifyEntries(t)}
    \cup {[d \in {DateStr(t)} |->
            <<AnalysisEntry(t - 1, <<"o", "l", "d">>, MinPosts, FREE_MODELS[1]), e>>] :
          e \in NotifyEntries(t)}

InitNotify ==
    /\ now \in NotifyTimes
    /\ logs = <<>>
    /\ analysis_files \in NotifyFiles(now)
    /\ scrapes = 0
    /\ raw_posts = <<>>
    /\ latest_entry = <<>>
    /\ posts = <<>>
    /\ loaded = <<>>
    /\ pc = "notifier"
    /\ unique_posts = <<>>
    /\ api_key = <<>>
    /\ available = <<>>
    /\ models_to_try = <<>>
    /\ calls = <<>>
    /\ responses = <<>>
    /\ discoveries = 0
    /\ returned = <<>>
    /\ saved = 0
    /\ saved_at = <<>>
    /\ text = NoText
    /\ max_len = 1
    /\ remaining = NoText
    /\ parts = <<>>
    /\ InitNotifierIdle

NextNotify ==
    \/ \E env \in BOOLEAN, delay \in NotifyDelays : NotifierStart(env, delay)
    \/ \E answer \in TelegramAnswers : SendPart(answer)
    \/ NotifierExit

SpecNotify == InitNotify /\ [][NextNotify]_vars

----------------------------------------------------------------------------
(* Claims about the notifier run, checked under SpecNotify *)

\* the (result, part) pairs from result i on, in result order and then part
\* order, given the parts of each result
RECURSIVE SendsFrom(_, _)
SendsFrom(ps, i) ==
    IF i > Len(ps) THEN <<>>
    ELSE [p \in 1..Len(ps[i]) |-> [result |-> i, part |-> p]]
            \o SendsFrom(ps, i + 1)

\* the results all of whose deliveries so far succeeded
FullyDelivered ==
    {i \in 1..Len(results) :
        \A k \in 1..Len(sent) : sent[k].result = i => sent[k].ok}

\* the notifier run is over
NotifierOver == pc \in {"finish", "exited"}

\* C11: every formatted part of every result is passed to send_telegram
\* exactly once, in result order and then part order, whatever the earlier
\* outcomes; a result counts as successful iff all its parts were delivered.
C11_EveryPartSentOnceInOrder ==
    LET partsOf == [i \in 1..Len(results) |-> PartsOf(results[i])]
        expected == SendsFrom(partsOf, 1)
    IN  /\ Len(sent) <= Len(expected)
        /\ \A k \in 1..Len(sent) :
              /\ sent[k].result = expected[k].result
              /\ sent[k].part = expected[k].part
              /\ sent[k].message.body
                    = partsOf[expected[k].result][expected[k].part]
        /\ pc = "send" => Len(sent) < Len(expected)
        /\ NotifierOver =>
              /\ Len(sent) = Len(expected)
              /\ success_count = Cardinality(FullyDelivered)

\* C11 witness: two results, the first in two parts of which the first was
\* not delivered and the second was, the second result delivered: one success
C11_Witness ==
    /\ pc = "exited"
    /\ Len(results) = 2
    /\ Len(sent) = 3
    /\ ~sent[1].ok /\ sent[2].ok /\ sent[3].ok
    /\ sent[2].result = 1 /\ sent[3].result = 2
    /\ success_count = 1

\* C12 (as stated): the run exits non-zero iff no result was fully delivered,
\* whatever the latest analysis is, including none and no results.
C12_Original_NonZeroIffNothingDelivered ==
    pc = "exited" => (exit_code # <<0>> <=> FullyDelivered = {})

\* C12 (amended): a run with at least one result to send exits non-zero iff
\* no result had all its parts delivered; a run that finds no analysis or an
\* entry without results sends nothing and exits zero.
C12_ExitStatusOfDelivery ==
    pc = "exited" =>
        IF results = <<>>
        THEN exit_code = <<0>> /\ sent = <<>>
        ELSE /\ exit_code \in {<<0>>, <<1>>}
             /\ exit_code = <<1>> <=> FullyDelivered = {}

\* C12 witness: the only result was sent in two parts, one delivered and one
\* not: nothing fully delivered, exit status 1
C12_Witness ==
    /\ pc = "exited"
    /\ Len(results) = 1
    /\ Len(sent) = 2
    /\ sent[1].ok /\ ~sent[2].ok
    /\ exit_code = <<1>>

----------------------------------------------------------------------------
(* The analysis store round trip: an analyzer run, then a notifier run *)

\* the analysis area the analyzer run starts from: as under Spec, or today's
\* file holding an empty list
RoundTripFiles(t) == AnalyzerFiles(t) \cup {[d \in {DateStr(t)} |-> <<>>]}

InitRoundTrip ==
    /\ now \in AnalyzerTimes
    /\ logs \in AnalyzerLogs(now)
    /\ analysis_files \in RoundTripFiles(now)
    /\ scrapes = 0
    /\ raw_posts = <<>>
    /\ latest_entry = <<>>
    /\ posts = <<>>
    /\ loaded = <<>>
    /\ pc = "idle"
    /\ unique_posts = <<>>
    /\ api_key = <<>>
    /\ available = <<>>
    /\ models_to_try = <<>>
    /\ calls = <<>>
    /\ responses = <<>>
    /\ discoveries = 0
    /\ returned = <<>>
    /\ saved = 0
    /\ saved_at = <<>>
    /\ text = NoText
    /\ max_len = 1
    /\ remaining = NoText
    /\ parts = <<>>
    /\ InitNotifierIdle

\* the analyzer run, then the notifier run up to its delivery loop (the
\* deliveries themselves are the subject of SpecNotify)
NextRoundTrip ==
    \/ Next
    \/ \E env \in BOOLEAN, delay \in NotifyDelays : NotifierStart(env, delay)

SpecRoundTrip == InitRoundTrip /\ [][NextRoundTrip]_vars

\* the notifier run has read the analysis store
NotifierStarted == pc \in {"send", "exited"}

\* the notifier runs on the calendar day on which the analyzer run saved
SameDay == saved_at # <<>> /\ DateStr(saved_at[1]) = DateStr(now)

\* C15: after an analyzer run persisted an entry, a notifier run of the same
\* day reads exactly that entry, the last of the day's file, and normalizes it
\* to one result with the saved model identifier and analysis text; with an
\* absent or empty file it reads none and sends nothing.
C15_NotifierReadsWhatAnalyzerSaved ==
    NotifierStarted =>
        LET file == FileEntries(analysis_files, DateStr(now))
        IN  /\ file = <<>> =>
                  latest_analysis = <<>> /\ results = <<>> /\ sent = <<>>
            /\ (saved > 0 /\ SameDay) =>
                  /\ latest_analysis = <<file[Len(file)]>>
                  /\ latest_analysis[1] =
                        AnalysisEntry(saved_at[1], returned[1].result,
                                      Len(unique_posts), returned[1].model)
                  /\ results = <<[model |-> returned[1].model,
                                  analysis |-> returned[1].result]>>

\* C15 witness: the analyzer appended a model's answer after an earlier entry
\* of the day, and the notifier of that day is about to send it
C15_Witness ==
    /\ pc = "send"
    /\ saved > 0 /\ SameDay
    /\ Len(FileEntries(analysis_files, DateStr(now))) = 2
    /\ returned[1].model # ""
    /\ Len(results) = 1
    /\ results[1].model = returned[1].model

====
